---- MODULE Spec2Model ----
(***************************************************************************)
(* Model of screwdriver-template-validator: parseJobTemplate (src/index.js)*)
(* and the template composition of src/lib/helper.js (merge,               *)
(* mergeTemplateIntoJob).                                                  *)
(*                                                                         *)
(* JavaScript objects are functions whose DOMAIN is the set of the keys    *)
(* that are present: a missing key is `undefined`.  A step {name: value}   *)
(* is the record [name, command, locked]; locked = FALSE stands for the    *)
(* bare command string and for an object without a truthy `locked`.        *)
(***************************************************************************)
EXTENDS Integers, Sequences, FiniteSets, TLC

-----------------------------------------------------------------------------
(* JavaScript object and array primitives *)

Has(o, k) == k \in DOMAIN o

Put(o, k, v) == [x \in (DOMAIN o) \cup {k} |-> IF x = k THEN v ELSE o[x]]

Delete(o, k) == [x \in (DOMAIN o) \ {k} |-> o[x]]

\* field k of o, or the default d when o has no such key (`o.k || d`)
GetOr(o, k, d) == IF Has(o, k) THEN o[k] ELSE d

\* Object.assign(target, source): the keys of source override those of target
ObjectAssign(target, source) ==
    [k \in (DOMAIN target) \cup (DOMAIN source) |->
        IF k \in DOMAIN source THEN source[k] ELSE target[k]]

\* Hoek.merge(target, source) on flat maps of strings: source values win
HoekMerge(target, source) ==
    [k \in (DOMAIN target) \cup (DOMAIN source) |->
        IF k \in DOMAIN source THEN source[k] ELSE target[k]]

\* String.prototype.startsWith
StartsWith(s, p) == Len(s) >= Len(p) /\ SubSeq(s, 1, Len(p)) = p

IsTeardown(stepName) == StartsWith(stepName, "teardown-")

RECURSIVE SetToArray(_)
\* [...new Set(array)]: first occurrences, in order
SetToArray(array) ==
    IF array = <<>> THEN <<>>
    ELSE LET init == SetToArray(SubSeq(array, 1, Len(array) - 1))
             last == array[Len(array)]
         IN IF \E i \in DOMAIN init : init[i] = last
            THEN init ELSE Append(init, last)

Names(steps) == {steps[i].name : i \in DOMAIN steps}

-----------------------------------------------------------------------------
(* src/lib/helper.js *)

\* steps.reduce((obj, item) => { obj[key] = item[key] }, {}): the last entry
\* of a name is the one the lookup keeps
convertFromArrayToObject(steps) ==
    [n \in Names(steps) |->
        LET I    == {i \in DOMAIN steps : steps[i].name = n}
            last == CHOOSE i \in I : \A j \in I : j <= i
        IN steps[last]]

\* StepNotFound without the name
StepNotFoundUnnamed(stepName) == "step definition not found; skipping"

StepNotFound(stepName) == stepName \o " step definition not found; skipping"

\* OrderOne that leaves a teardown step where order names it
OrderOneInPlace(stepName, oldSteps, newSteps, rest) ==
    IF Has(oldSteps, stepName)
    THEN [rest EXCEPT !.mergedSteps = <<oldSteps[stepName]>> \o @]
    ELSE IF Has(newSteps, stepName)
    THEN [rest EXCEPT !.mergedSteps = <<newSteps[stepName]>> \o @]
    ELSE [rest EXCEPT !.warnings = <<StepNotFound(stepName)>> \o @]

\* helper.js 259-273: what one name of order adds to what the rest collects
OrderOne(stepName, oldSteps, newSteps, rest) ==
    IF Has(oldSteps, stepName)
    THEN IF IsTeardown(stepName)
         THEN [rest EXCEPT !.teardownSteps = <<oldSteps[stepName]>> \o @]
         ELSE [rest EXCEPT !.mergedSteps = <<oldSteps[stepName]>> \o @]
    ELSE IF Has(newSteps, stepName)
    THEN IF IsTeardown(stepName)
         THEN [rest EXCEPT !.teardownSteps = <<newSteps[stepName]>> \o @]
         ELSE [rest EXCEPT !.mergedSteps = <<newSteps[stepName]>> \o @]
    ELSE [rest EXCEPT !.warnings = <<StepNotFound(stepName)>> \o @]

RECURSIVE OrderLoop(_, _, _, _)
\* the loop over oldJob.order (helper.js 254-274), from index i on:
\* [mergedSteps, teardownSteps, warnings] collected from order[i..]
OrderLoop(order, oldSteps, newSteps, i) ==
    IF i > Len(order)
    THEN [mergedSteps |-> <<>>, teardownSteps |-> <<>>, warnings |-> <<>>]
    ELSE OrderOne(order[i], oldSteps, newSteps,
                  OrderLoop(order, oldSteps, newSteps, i + 1))

\* WrapOne without the teardown exception: the child's definition replaces
\* the parent's step in place whatever its name
WrapOneInPlace(parentStep, oldSteps) ==
    LET stepName     == parentStep.name
        preStepName  == "pre" \o stepName
        postStepName == "post" \o stepName
    IN  (IF Has(oldSteps, preStepName) THEN <<oldSteps[preStepName]>> ELSE <<>>)
     \o (IF ~Has(oldSteps, stepName) THEN <<parentStep>> ELSE <<oldSteps[stepName]>>)
     \o (IF Has(oldSteps, postStepName) THEN <<oldSteps[postStepName]>> ELSE <<>>)

\* WrapOne that never adds the child's post- step
WrapOneNoPost(parentStep, oldSteps) ==
    LET stepName    == parentStep.name
        preStepName == "pre" \o stepName
    IN  (IF Has(oldSteps, preStepName) THEN <<oldSteps[preStepName]>> ELSE <<>>)
     \o (IF ~Has(oldSteps, stepName) THEN <<parentStep>>
         ELSE IF ~IsTeardown(stepName) THEN <<oldSteps[stepName]>>
         ELSE <<>>)

\* what one iteration of the walk over newJob.steps pushes (helper.js 298-321)
WrapOne(parentStep, oldSteps) ==
    LET stepName     == parentStep.name
        preStepName  == "pre" \o stepName
        postStepName == "post" \o stepName
    IN  (IF Has(oldSteps, preStepName) THEN <<oldSteps[preStepName]>> ELSE <<>>)
     \o (IF ~Has(oldSteps, stepName) THEN <<parentStep>>
         ELSE IF ~IsTeardown(stepName) THEN <<oldSteps[stepName]>>
         ELSE <<>>)
     \o (IF Has(oldSteps, postStepName) THEN <<oldSteps[postStepName]>> ELSE <<>>)

RECURSIVE WrapLoop(_, _, _)
WrapLoop(newStepsArr, oldSteps, i) ==
    IF i > Len(newStepsArr) THEN <<>>
    ELSE WrapOne(newStepsArr[i], oldSteps) \o WrapLoop(newStepsArr, oldSteps, i + 1)

\* TeardownTail that appends nothing
TeardownTailNone(oldStepsArr, oldSteps) == <<>>

\* TeardownTail that appends every step of the child, teardown or not
TeardownTailUnfiltered(oldStepsArr, oldSteps) ==
    [i \in DOMAIN oldStepsArr |-> oldSteps[oldStepsArr[i].name]]

\* the child's teardown steps, by the child's list order, each with the
\* definition the lookup holds (helper.js 286-296, 323-326)
TeardownTail(oldStepsArr, oldSteps) ==
    LET teardownSteps == SelectSeq(oldStepsArr, LAMBDA s : IsTeardown(s.name))
    IN [i \in DOMAIN teardownSteps |-> oldSteps[teardownSteps[i].name]]

\* MergeMap in which the parent's value wins a key both define
MergeMapParentWins(newJob, oldJob, k) ==
    Put(newJob, k, ObjectAssign(GetOr(oldJob, k, <<>>), GetOr(newJob, k, <<>>)))

\* Object.assign(newJob[k] || {}, oldJob[k] || {}) (helper.js 202-209)
MergeMap(newJob, oldJob, k) ==
    Put(newJob, k, ObjectAssign(GetOr(newJob, k, <<>>), GetOr(oldJob, k, <<>>)))

\* helper.js 210: `newJob.image = oldJob.image || newJob.image`
Override(newJob, oldJob, k) ==
    IF Has(oldJob, k) THEN Put(newJob, k, oldJob[k]) ELSE newJob

\* OverrideList that unions the child's list into the parent's
OverrideListUnion(newJob, oldJob, k) ==
    IF Has(oldJob, k)
    THEN Put(newJob, k, SetToArray(GetOr(newJob, k, <<>>) \o oldJob[k]))
    ELSE newJob

\* helper.js 212-222: `if (oldJob[k]) newJob[k] = [].concat(oldJob[k])`; a list,
\* the empty one included, is truthy
OverrideList(newJob, oldJob, k) ==
    IF Has(oldJob, k) THEN Put(newJob, k, <<>> \o oldJob[k]) ELSE newJob

\* OverrideCache that takes the child's cache only when it is truthy
OverrideCacheTruthy(newJob, oldJob) ==
    IF Has(oldJob, "cache") /\ oldJob.cache
    THEN Put(newJob, "cache", oldJob.cache) ELSE newJob

\* helper.js 224-226: `if (oldJob.cache || oldJob.cache === false)`
OverrideCache(newJob, oldJob) ==
    IF Has(oldJob, "cache") /\ (oldJob.cache \/ oldJob.cache = FALSE)
    THEN Put(newJob, "cache", oldJob.cache) ELSE newJob

\* MergeSet that keeps duplicates
MergeSetConcat(newJob, oldJob, k) ==
    Put(newJob, k, GetOr(newJob, k, <<>>) \o GetOr(oldJob, k, <<>>))

\* the parent's list, then the child's, without duplicates (helper.js 228-241)
MergeSet(newJob, oldJob, k) ==
    Put(newJob, k, SetToArray(GetOr(newJob, k, <<>>) \o GetOr(oldJob, k, <<>>)))

\* helper.js 201-241: every field but the steps.  No statement of merge
\* reads or writes `parameters`: newJob keeps the parent's, if any.
MergeFields(newJob, oldJob) ==
    MergeSet(MergeSet(
        OverrideCache(OverrideList(OverrideList(OverrideList(Override(
            MergeMap(MergeMap(MergeMap(newJob, oldJob, "annotations"),
                              oldJob, "environment"),
                     oldJob, "settings"),
            oldJob, "image"), oldJob, "requires"), oldJob, "blockedBy"),
            oldJob, "freezeWindows"), oldJob),
        oldJob, "secrets"), oldJob, "sourcePaths")

\* helper.js 276: the steps order mode leaves, with the warnings of its loop
OrderResult(newJob, r) ==
    [job      |-> Put(newJob, "steps", r.mergedSteps \o r.teardownSteps),
     warnings |-> r.warnings,
     threw    |-> FALSE]

\* helper.js 285-328: wrap mode
WrapResult(newJob, oldStepsArr, oldSteps) ==
    [job      |-> Put(newJob, "steps",
                      WrapLoop(newJob.steps, oldSteps, 1)
                      \o TeardownTail(oldStepsArr, oldSteps)),
     warnings |-> <<>>,
     threw    |-> FALSE]

\* helper.js 243-331: the steps, on the job whose other fields are merged.
\* threw is TRUE when a step list that is read is undefined (a TypeError).
MergeSteps(newJob, oldJob, fromTemplate) ==
    IF fromTemplate /\ Has(oldJob, "order")
    THEN IF ~Has(oldJob, "steps") \/ ~Has(newJob, "steps")
         THEN [job |-> newJob, warnings |-> <<>>, threw |-> TRUE]
         ELSE OrderResult(newJob, OrderLoop(oldJob.order,
                                            convertFromArrayToObject(oldJob.steps),
                                            convertFromArrayToObject(newJob.steps), 1))
    ELSE IF fromTemplate /\ Has(oldJob, "steps")
    THEN IF ~Has(newJob, "steps")
         THEN [job |-> newJob, warnings |-> <<>>, threw |-> TRUE]
         ELSE WrapResult(newJob, oldJob.steps, convertFromArrayToObject(oldJob.steps))
    ELSE [job |-> newJob, warnings |-> <<>>, threw |-> FALSE]

\* merge(newJob, oldJob, fromTemplate): newJob is the parent's config, which
\* it changes in place; the result is [job, warnings, threw].  When it
\* throws, the fields assigned before the throw stay assigned.
merge(newJob, oldJob, fromTemplate) ==
    MergeSteps(MergeFields(newJob, oldJob), oldJob, fromTemplate)

\* TemplateEnvironment that prefixes every namespace, 'default' included
TemplateEnvironmentPrefixed(template) ==
    LET namespace == GetOr(template, "namespace", "")
        fullName  == IF namespace # ""
                     THEN namespace \o "/" \o template.name
                     ELSE template.name
    IN [SD_TEMPLATE_FULLNAME  |-> fullName,
        SD_TEMPLATE_NAME      |-> template.name,
        SD_TEMPLATE_NAMESPACE |-> namespace,
        SD_TEMPLATE_VERSION   |-> template.version]

\* the parent's identity as mergeTemplateIntoJob injects it (helper.js 358-371)
TemplateEnvironment(template) ==
    LET namespace == GetOr(template, "namespace", "")
        fullName  == IF namespace # "" /\ namespace # "default"
                     THEN namespace \o "/" \o template.name
                     ELSE template.name
    IN [SD_TEMPLATE_FULLNAME  |-> fullName,
        SD_TEMPLATE_NAME      |-> template.name,
        SD_TEMPLATE_NAMESPACE |-> namespace,
        SD_TEMPLATE_VERSION   |-> template.version]

\* NotExist without the reference
NotExistUnnamed(reference) == "Template does not exist"

NotExist(reference) == "Template " \o reference \o " does not exist"

\* helper.js 355-371: the parent's config with its identity injected
InjectEnvironment(template) ==
    Put(template.config, "environment",
        HoekMerge(GetOr(template.config, "environment", <<>>),
                  TemplateEnvironment(template)))

\* AfterMerge that leaves the parent's own template reference in the config
AfterMergeKeepTemplate(template, m) ==
    IF m.threw
    THEN [template |-> [template EXCEPT !.config = m.job],
          warnings |-> <<>>, threw |-> TRUE]
    ELSE [template |-> [template EXCEPT
                          !.config = Put(m.job, "templateId", template.id)],
          warnings |-> m.warnings, threw |-> FALSE]

\* helper.js 373-383: the document and warnings the callback leaves, given
\* what merge returned
AfterMerge(template, m) ==
    IF m.threw
    THEN [template |-> [template EXCEPT !.config = m.job],
          warnings |-> <<>>, threw |-> TRUE]
    ELSE [template |-> [template EXCEPT
                          !.config = Put(Delete(m.job, "template"), "templateId",
                                         template.id)],
          warnings |-> m.warnings, threw |-> FALSE]

\* the .then callback of mergeTemplateIntoJob on a template that was found
\* (helper.js 354-383).  newJob IS template.config: the callback writes into
\* the document the store handed out.  The result is the document as the
\* callback leaves it, the warnings, and whether merge threw.
mergeTemplateIntoJob(template, oldJob) ==
    AfterMerge(template, merge(InjectEnvironment(template), oldJob, TRUE))

-----------------------------------------------------------------------------
(* src/index.js *)

OrderWithoutTemplate == "\"order\" in template config cannot be used without \"template\""

\* YAML scalars that load as numbers; every other scalar loads as a string
NumberScalars == {"1"}

\* schema.validateAsync(templateObj, {abortEarly: false}): every violation,
\* in schema order.  The schema is an external package; the two rules are
\* those the repository's test of a poorly structured template exercises.
Violations(templateObj) ==
       (IF ~Has(templateObj, "description")
        THEN <<[path |-> <<"description">>, message |-> "\"description\" is required"]>>
        ELSE <<>>)
    \o (IF Has(templateObj.config, "image") /\ templateObj.config.image \in NumberScalars
        THEN <<[path |-> <<"config", "image">>,
                message |-> "\"config.image\" must be a string"]>>
        ELSE <<>>)

\* StripOrder that drops the order without a warning
StripOrderSilently(templateObj) ==
    LET order == GetOr(templateObj.config, "order", <<>>)
    IN IF Len(order) > 0 /\ ~Has(templateObj.config, "template")
       THEN [templateObj |-> [templateObj EXCEPT !.config = Delete(@, "order")],
             warnMessages |-> <<>>]
       ELSE [templateObj |-> templateObj, warnMessages |-> <<>>]

\* flattenTemplate, lines 41-49: order without template is dropped with a warning
StripOrder(templateObj) ==
    LET order == GetOr(templateObj.config, "order", <<>>)
    IN IF Len(order) > 0 /\ ~Has(templateObj.config, "template")
       THEN [templateObj |-> [templateObj EXCEPT !.config = Delete(@, "order")],
             warnMessages |-> <<OrderWithoutTemplate>>]
       ELSE [templateObj |-> templateObj, warnMessages |-> <<>>]

\* NeedsTemplate that does not look at the store
NeedsTemplateAnyStore(templateObj, hasFactory) == Has(templateObj.config, "template")

\* flattenTemplate, line 52: `template && templateFactory`
NeedsTemplate(templateObj, hasFactory) ==
    Has(templateObj.config, "template") /\ hasFactory

\* index.js 62-66: Object.assign(parentTemplateImages, templateObj.images)
\* writes the child's labels into the parent's images object
AssignImages(template, templateObj) ==
    IF Has(template, "images") /\ Has(templateObj, "images")
    THEN [template EXCEPT !.images = ObjectAssign(@, templateObj.images)]
    ELSE template

\* SubstituteImage that never replaces the image
SubstituteImageNever(template, images) == template

\* index.js 70-75: childJobConfig, the parent's config object, takes the
\* image a label of images names
SubstituteImage(template, images) ==
    IF Has(template.config, "image") /\ Has(images, template.config.image)
    THEN [template EXCEPT !.config = Put(@, "image", images[template.config.image])]
    ELSE template

\* the images templateObj.images names after index.js 62-66
ImagesOf(template, templateObj) ==
    IF Has(template, "images") THEN template.images
    ELSE GetOr(templateObj, "images", <<>>)

\* flattenTemplate, lines 61-75, on the document the callback left
MergeImages(template, templateObj) ==
    SubstituteImage(AssignImages(template, templateObj),
                    ImagesOf(AssignImages(template, templateObj), templateObj))

\* Catch that rethrows every error
CatchRethrow(err) == "rejected"

\* parseJobTemplate, lines 111-120: an error without `details` is rethrown,
\* any other becomes the {errors, template} result
Catch(err) == IF ~Has(err, "details") THEN "rejected" ELSE "invalid"

-----------------------------------------------------------------------------
(* State *)

VARIABLES
    parent,     \* the parent TemplateDocument object the store hands out
    fresh,      \* that document as the store first loaded it
    calls,      \* the parseJobTemplate calls: locals, position, settlement
    fetches     \* the references getTemplate was called with, in call order

vars == <<parent, fresh, calls, fetches>>

\* the calls a run may hold
CallIds == {1, 2}

\* the locals of one parseJobTemplate call.  configIsParent / imagesIsParent:
\* templateObj.config / templateObj.images name the parent's own objects
\* (index.js 59, 63-65) rather than objects of the call.
NewCall(yaml, hasFactory) ==
    [pc               |-> "load",
     yaml             |-> yaml,
     hasFactory       |-> hasFactory,
     configToValidate |-> <<>>,
     templateObj      |-> <<>>,
     configIsParent   |-> FALSE,
     imagesIsParent   |-> FALSE,
     warnMessages     |-> <<>>,
     warnings         |-> <<>>,
     settled          |-> "none",
     outcome          |-> "pending",
     error            |-> <<>>]

\* a call that is never made
NoCall == [NewCall([wellFormed |-> FALSE, doc |-> <<>>], FALSE) EXCEPT !.pc = "unused"]

\* Template that lays the call's document over the parent document
TemplateOverParent(c) ==
    ObjectAssign(ObjectAssign(IF calls[c].configIsParent THEN parent ELSE <<>>,
                              calls[c].templateObj),
                 ObjectAssign(IF calls[c].configIsParent
                              THEN [config |-> parent.config] ELSE <<>>,
                              IF calls[c].imagesIsParent
                              THEN [images |-> parent.images] ELSE <<>>))

\* the call's document with its references followed
Template(c) ==
    ObjectAssign(calls[c].templateObj,
                 ObjectAssign(IF calls[c].configIsParent
                              THEN [config |-> parent.config] ELSE <<>>,
                              IF calls[c].imagesIsParent
                              THEN [images |-> parent.images] ELSE <<>>))

\* Result that always carries warnMessages
ResultAlwaysWarn(c) ==
    IF calls[c].outcome = "invalid"
    THEN [errors |-> calls[c].error.details, template |-> calls[c].configToValidate]
    ELSE [errors |-> <<>>, template |-> Template(c),
          warnMessages |-> calls[c].warnMessages]

\* what the promise of parseJobTemplate resolved to (index.js 101-110, 116-119)
Result(c) ==
    IF calls[c].outcome = "invalid"
    THEN [errors |-> calls[c].error.details, template |-> calls[c].configToValidate]
    ELSE IF Len(calls[c].warnMessages) > 0
         THEN [errors |-> <<>>, template |-> Template(c),
               warnMessages |-> calls[c].warnMessages]
         ELSE [errors |-> <<>>, template |-> Template(c)]

\* the catch block of parseJobTemplate settles the call with err
Throw(c, err) ==
    calls' = [calls EXCEPT ![c].pc = "done",
                           ![c].outcome = Catch(err),
                           ![c].error = err]

-----------------------------------------------------------------------------
(* Actions: one per stretch of parseJobTemplate between two awaits *)

\* index.js 97: await loadTemplate(yamlString)
LoadTemplate(c) ==
    /\ calls[c].pc = "load"
    /\ IF calls[c].yaml.wellFormed
       THEN calls' = [calls EXCEPT ![c].pc = "validate",
                                   ![c].configToValidate = calls[c].yaml.doc]
       ELSE Throw(c, [name |-> "YAMLException", message |-> "bad indentation of a mapping entry"])
    /\ UNCHANGED <<parent, fresh, fetches>>

\* index.js 98: await validateTemplateStructure(configToValidate, SCHEMA_CONFIG)
ValidateTemplateStructure(c) ==
    /\ calls[c].pc = "validate"
    /\ LET details == Violations(calls[c].configToValidate)
       IN IF details # <<>>
          THEN Throw(c, [name |-> "ValidationError", message |-> details[1].message,
                         details |-> details])
          ELSE calls' = [calls EXCEPT ![c].pc = "flatten",
                                      ![c].templateObj = calls[c].configToValidate]
    /\ UNCHANGED <<parent, fresh, fetches>>

\* index.js 40-56: flattenTemplate up to the await on the store, or, when no
\* template is to be merged, through to the result (index.js 78, 101-110)
FlattenTemplate(c) ==
    /\ calls[c].pc = "flatten"
    /\ LET stripped == StripOrder(calls[c].templateObj)
       IN IF NeedsTemplate(calls[c].templateObj, calls[c].hasFactory)
          THEN /\ calls' = [calls EXCEPT ![c].pc = "fetch",
                                         ![c].templateObj = stripped.templateObj,
                                         ![c].warnMessages = stripped.warnMessages]
               /\ fetches' = Append(fetches, calls[c].templateObj.config.template)
          ELSE /\ calls' = [calls EXCEPT ![c].pc = "done",
                                         ![c].outcome = "success",
                                         ![c].templateObj = stripped.templateObj,
                                         ![c].warnMessages = stripped.warnMessages]
               /\ UNCHANGED fetches
    /\ UNCHANGED <<parent, fresh>>

\* the errors the store may reject with: a transport error, and an error
\* that carries a `details` property of its own
StoreErrors ==
    {[name |-> "Error", message |-> "connect ECONNREFUSED"],
     [name |-> "Error", message |-> "store unavailable",
      details |-> <<[path |-> <<"store">>, message |-> "upstream timeout"]>>]}

\* helper.js 348: getTemplate rejects
GetTemplateRejects(c) ==
    /\ calls[c].pc = "fetch"
    /\ \E err \in StoreErrors :
          calls' = [calls EXCEPT ![c].pc = "done", ![c].settled = "rejected",
                                 ![c].outcome = Catch(err), ![c].error = err]
    /\ UNCHANGED <<parent, fresh, fetches>>

\* helper.js 349-352: getTemplate resolves to null
GetTemplateNull(c) ==
    /\ calls[c].pc = "fetch"
    /\ LET err == [name |-> "Error",
                   message |-> NotExist(calls[c].templateObj.config.template)]
       IN calls' = [calls EXCEPT ![c].pc = "done", ![c].settled = "null",
                                 ![c].outcome = Catch(err), ![c].error = err]
    /\ UNCHANGED <<parent, fresh, fetches>>

\* the TypeError of reading a step list that is undefined (helper.js 184, 298)
StepsUndefined ==
    [name |-> "TypeError", message |-> "Cannot read properties of undefined (reading 'reduce')"]

\* the call after the callback returned r: suspended again, or settled by
\* what the callback threw
AfterCallback(call, r) ==
    IF r.threw
    THEN [call EXCEPT !.pc = "done", !.settled = "found",
                      !.outcome = Catch(StepsUndefined), !.error = StepsUndefined]
    ELSE [call EXCEPT !.pc = "resume", !.settled = "found", !.warnings = r.warnings]

\* GetTemplateFound that goes on to fetch the parent's own parent
GetTemplateFoundRecursive(c) ==
    /\ calls[c].pc = "fetch"
    /\ parent' = mergeTemplateIntoJob(parent, calls[c].templateObj.config).template
    /\ calls' = [calls EXCEPT
                   ![c] = AfterCallback(@, mergeTemplateIntoJob(parent,
                                                                calls[c].templateObj.config))]
    /\ fetches' = IF Has(parent.config, "template")
                  THEN Append(fetches, parent.config.template) ELSE fetches
    /\ UNCHANGED fresh

\* helper.js 349-384: getTemplate resolves to the parent document and the
\* callback merges the child's config into it
GetTemplateFound(c) ==
    /\ calls[c].pc = "fetch"
    /\ parent' = mergeTemplateIntoJob(parent, calls[c].templateObj.config).template
    /\ calls' = [calls EXCEPT
                   ![c] = AfterCallback(@, mergeTemplateIntoJob(parent,
                                                                calls[c].templateObj.config))]
    /\ UNCHANGED <<fresh, fetches>>

\* index.js 58-78 and 101-110: flattenTemplate after the await, and the result
FlattenResume(c) ==
    /\ calls[c].pc = "resume"
    /\ parent' = MergeImages(parent, calls[c].templateObj)
    /\ calls' = [calls EXCEPT ![c].pc = "done",
                              ![c].outcome = "success",
                              ![c].warnMessages = @ \o calls[c].warnings,
                              ![c].configIsParent = TRUE,
                              ![c].imagesIsParent = Has(parent, "images")]
    /\ UNCHANGED <<fresh, fetches>>

Next ==
    \/ \E c \in CallIds : LoadTemplate(c)
    \/ \E c \in CallIds : ValidateTemplateStructure(c)
    \/ \E c \in CallIds : FlattenTemplate(c)
    \/ \E c \in CallIds : GetTemplateRejects(c)
    \/ \E c \in CallIds : GetTemplateNull(c)
    \/ \E c \in CallIds : GetTemplateFound(c)
    \/ \E c \in CallIds : FlattenResume(c)

-----------------------------------------------------------------------------
(* Inputs *)

MaxParentSteps == 2
MaxChildSteps == 2
MaxOrder == 2
MaxList == 2

BoundedSeq(S, n) == UNION {[1..k -> S] : k \in 0..n}

\* the reference the child names its parent by
ParentRef == "template_namespace/parent@1"

ParentStep(name, locked) == [name |-> name, command |-> "parent " \o name, locked |-> locked]
ChildStep(name) == [name |-> name, command |-> "child " \o name, locked |-> FALSE]

ParentStepNames == {"build", "teardown-clean"}
ChildStepNames == {"build", "prebuild", "postbuild", "teardown-clean", "postteardown-clean"}
OrderNames == {"build", "teardown-clean", "deploy"}

ParentStepLists ==
    BoundedSeq({ParentStep(n, l) : n \in ParentStepNames, l \in BOOLEAN}, MaxParentSteps)
ChildStepLists == BoundedSeq({ChildStep(n) : n \in ChildStepNames}, MaxChildSteps)
\* the child's step lists that an order can name
OrderedStepLists == BoundedSeq({ChildStep(n) : n \in ParentStepNames}, MaxChildSteps)
Orders == BoundedSeq(OrderNames, MaxOrder)

\* a parent document as the store holds it: bare, or with a namespace, an
\* images map, and a config that has its own environment, secrets and parent
ParentDoc(rich, steps) ==
    IF rich
    THEN [id |-> 7, name |-> "parent", namespace |-> "template_namespace",
          version |-> "1.0.0", images |-> [base |-> "node:20"],
          config |-> [image |-> "node:18", environment |-> [FOO |-> "parent"],
                      secrets |-> <<"NPM_TOKEN">>,
                      template |-> "template_namespace/grandparent@2",
                      steps |-> steps]]
    ELSE [id |-> 7, name |-> "parent", version |-> "1.0.0",
          config |-> [image |-> "node:18", steps |-> steps]]

\* optional fields of a child config: a present field is a one-key object
Optional(k, values) == {<<>>} \cup {Put(<<>>, k, v) : v \in values}

ChildDoc(rich, config) ==
    IF rich
    THEN [name |-> "child", version |-> "2.0.0", description |-> "a child",
          maintainer |-> "me@example.com", images |-> [stable |-> "node:lts"],
          config |-> ObjectAssign([image |-> "base", environment |-> [FOO |-> "child"],
                                   secrets |-> <<"GIT_KEY", "NPM_TOKEN">>], config)]
    ELSE [name |-> "child", version |-> "2.0.0", description |-> "a child",
          maintainer |-> "me@example.com",
          config |-> ObjectAssign([image |-> "alpine"], config)]

\* the ways a document fails the schema (several at once included)
Spoil(doc, noDescription, numericImage) ==
    LET d1 == IF noDescription THEN Delete(doc, "description") ELSE doc
    IN IF numericImage THEN [d1 EXCEPT !.config = Put(@, "image", "1")] ELSE d1

Scenario(parentDoc, wellFormed, doc, hasFactory) ==
    [parent |-> parentDoc, yaml |-> [wellFormed |-> wellFormed, doc |-> doc],
     hasFactory |-> hasFactory]

\* wrap mode and pass-through: every parent step list and lock against every
\* child step list, the child naming its parent
WrapScenarios ==
    {Scenario(ParentDoc(FALSE, ps), TRUE,
              ChildDoc(FALSE, ObjectAssign([template |-> ParentRef], cs)), TRUE) :
        ps \in ParentStepLists,
        cs \in Optional("steps", ChildStepLists)}

\* order mode: every order against every parent step list and lock and the
\* child step lists of the names the parent uses
OrderScenarios ==
    {Scenario(ParentDoc(FALSE, ps), TRUE,
              ChildDoc(FALSE, ObjectAssign([template |-> ParentRef, order |-> o], cs)),
              TRUE) :
        ps \in ParentStepLists,
        cs \in Optional("steps", OrderedStepLists),
        o  \in Orders}

StepScenarios == WrapScenarios \cup OrderScenarios

\* every shape of document and store against one pair of step lists
FieldScenarios ==
    {Scenario(ParentDoc(pr, <<ParentStep("build", FALSE), ParentStep("teardown-clean", TRUE)>>),
              TRUE,
              Spoil(ChildDoc(cr, ObjectAssign(ObjectAssign([steps |-> <<ChildStep("build")>>],
                                                           t), o)), nd, ni),
              f) :
        pr \in BOOLEAN, cr \in BOOLEAN, nd \in BOOLEAN, ni \in BOOLEAN, f \in BOOLEAN,
        t \in Optional("template", {ParentRef}),
        o \in Optional("order", {<<>>, <<"build">>})}

\* a parent whose config carries the fields pf beside one step, and a child
\* naming it whose config carries the fields cf
MergePair(pf, cf) ==
    Scenario([ParentDoc(FALSE, <<ParentStep("build", FALSE)>>) EXCEPT
                 !.config = ObjectAssign(@, pf)],
             TRUE, ChildDoc(FALSE, ObjectAssign([template |-> ParentRef], cf)), TRUE)

\* the maps over some of keys, every value v
Maps(keys, v) == UNION {[S -> {v}] : S \in SUBSET keys}

\* secrets and sourcePaths: every pair of lists, repeated entries included
SetFieldScenarios ==
    {MergePair(pf, cf) :
        pf \in Optional("secrets", BoundedSeq({"GIT_KEY", "NPM_TOKEN"}, MaxList)),
        cf \in Optional("secrets", BoundedSeq({"GIT_KEY", "NPM_TOKEN"}, MaxList))}
    \cup
    {MergePair(pf, cf) :
        pf \in Optional("sourcePaths", BoundedSeq({"src/", "README.md"}, MaxList)),
        cf \in Optional("sourcePaths", BoundedSeq({"src/", "README.md"}, MaxList))}

ListFields == {"requires", "blockedBy", "freezeWindows"}

\* requires, blockedBy, freezeWindows: every pair of lists of one field
ListFieldScenarios ==
    UNION {{MergePair(pf, cf) :
               pf \in Optional(f, BoundedSeq({"~commit", "~pr"}, MaxList)),
               cf \in Optional(f, BoundedSeq({"~commit", "~pr"}, MaxList))} :
           f \in ListFields}

CacheScenarios ==
    {MergePair(pf, cf) : pf \in Optional("cache", BOOLEAN), cf \in Optional("cache", BOOLEAN)}

MapFields == {"annotations", "environment", "settings", "parameters"}

\* annotations, environment, settings, parameters: every pair of maps of one
\* field over two keys, the parent's values apart from the child's
MapFieldScenarios ==
    UNION {{MergePair(pf, cf) :
               pf \in Optional(f, Maps({"K1", "K2"}, "parent")),
               cf \in Optional(f, Maps({"K1", "K2"}, "child"))} :
           f \in MapFields}

InjectedKeys ==
    {"SD_TEMPLATE_FULLNAME", "SD_TEMPLATE_NAME", "SD_TEMPLATE_NAMESPACE", "SD_TEMPLATE_VERSION"}

\* the parent's identity: every namespace, a parent environment that already
\* holds an injected key, and every set of injected keys in the child's
EnvironmentScenarios ==
    {Scenario(ObjectAssign([ParentDoc(FALSE, <<ParentStep("build", FALSE)>>) EXCEPT
                               !.config = ObjectAssign(@, pe)], ns),
              TRUE, ChildDoc(FALSE, ObjectAssign([template |-> ParentRef], ce)), TRUE) :
        ns \in Optional("namespace", {"", "default", "template_namespace"}),
        pe \in Optional("environment", {[SD_TEMPLATE_NAME |-> "stale"], [FOO |-> "parent"]}),
        ce \in Optional("environment", Maps(InjectedKeys \cup {"FOO"}, "child"))}

ImageLabels == {"base", "stable"}

ParentImages == {[l \in S |-> "parent:" \o l] : S \in SUBSET ImageLabels}
ChildImages == {[l \in S |-> "child:" \o l] : S \in SUBSET ImageLabels}

\* images: every pair of label maps, the image of the child and of the
\* parent a label, a plain image, or (the child's) not set
ImageScenarios ==
    {Scenario(ObjectAssign([ParentDoc(FALSE, <<ParentStep("build", FALSE)>>) EXCEPT
                               !.config = Put(@, "image", pImage)], pi),
              TRUE,
              ObjectAssign([name |-> "child", version |-> "2.0.0", description |-> "a child",
                            maintainer |-> "me@example.com",
                            config |-> ObjectAssign([template |-> ParentRef], cImage)], ci),
              TRUE) :
        pi \in Optional("images", ParentImages),
        ci \in Optional("images", ChildImages),
        pImage \in {"node:18", "stable"},
        cImage \in Optional("image", ImageLabels \cup {"alpine"})}

MergeScenarios ==
    SetFieldScenarios \cup ListFieldScenarios \cup CacheScenarios \cup MapFieldScenarios
    \cup EnvironmentScenarios \cup ImageScenarios

\* the lists of steps of the names, each name at most once
DistinctLists(steps) ==
    {l \in BoundedSeq(steps, Cardinality(steps)) :
        \A i, j \in DOMAIN l : l[i] = l[j] => i = j}

\* wrap mode on a parent that has a step and the step its pre- name denotes
NestedNameScenarios ==
    {Scenario(ParentDoc(FALSE, ps), TRUE,
              ChildDoc(FALSE, ObjectAssign([template |-> ParentRef], cs)), TRUE) :
        ps \in DistinctLists({ParentStep("prebuild", FALSE), ParentStep("build", FALSE)}),
        cs \in Optional("steps", DistinctLists({ChildStep("prebuild"), ChildStep("build")}))}

\* a text the YAML loader rejects
MalformedScenarios ==
    {Scenario(ParentDoc(FALSE, <<ParentStep("build", FALSE)>>), FALSE, <<>>, TRUE)}

\* one call, served a parent document of its own
Start(s) ==
    /\ parent = s.parent
    /\ fresh = s.parent
    /\ calls = [c \in CallIds |->
                  IF c = 1 THEN NewCall(s.yaml, s.hasFactory) ELSE NoCall]
    /\ fetches = <<>>

Init ==
    \/ \E s \in StepScenarios : Start(s)
    \/ \E s \in FieldScenarios : Start(s)
    \/ \E s \in MergeScenarios : Start(s)
    \/ \E s \in NestedNameScenarios : Start(s)
    \/ \E s \in MalformedScenarios : Start(s)

Spec == Init /\ [][Next]_vars

\* two calls that the store serves the same parent document object
MaxSharedSteps == 1

SharedChildren ==
    {ChildDoc(cr, ObjectAssign([template |-> ParentRef], cs)) :
        cr \in BOOLEAN,
        cs \in Optional("steps", BoundedSeq({ChildStep("build"), ChildStep("prebuild")},
                                            MaxSharedSteps))}

InitShared ==
    \E pr \in BOOLEAN, d1 \in SharedChildren, d2 \in SharedChildren :
        /\ parent = ParentDoc(pr, <<ParentStep("build", FALSE),
                                    ParentStep("teardown-clean", TRUE)>>)
        /\ fresh = parent
        /\ calls = [c \in CallIds |->
                      NewCall([wellFormed |-> TRUE, doc |-> IF c = 1 THEN d1 ELSE d2], TRUE)]
        /\ fetches = <<>>

SpecShared == InitShared /\ [][Next]_vars

-----------------------------------------------------------------------------
(* Vocabulary of the properties *)

Done(c) == calls[c].pc = "done"

\* the child document as the caller supplied it, and its config
Child(c) == calls[c].yaml.doc
ChildConfig(c) == Child(c).config

\* the document loaded and passed the schema
Valid(c) == calls[c].yaml.wellFormed /\ Violations(Child(c)) = <<>>

\* the call fetched the parent, merged, and resolved successfully
Composed(c) == Done(c) /\ calls[c].settled = "found" /\ calls[c].outcome = "success"

OrderMode(c) == Has(ChildConfig(c), "order")
WrapMode(c) == ~Has(ChildConfig(c), "order") /\ Has(ChildConfig(c), "steps")

MergedSteps(c) == Template(c).config.steps

\* the names of the parent's locked steps, as the store first held them
LockedNames == {fresh.config.steps[i].name :
                   i \in {k \in DOMAIN fresh.config.steps : fresh.config.steps[k].locked}}

\* locked parent steps the child's order leaves out
MissingLocked(c) ==
    {n \in LockedNames : \A i \in DOMAIN ChildConfig(c).order : ChildConfig(c).order[i] # n}

ChildDefines(c, n) == Has(ChildConfig(c), "steps") /\ n \in Names(ChildConfig(c).steps)

Contains(s, t) == \E i \in 1..(Len(s) - Len(t) + 1) : SubSeq(s, i, i + Len(t) - 1) = t

Warned(c, w) == \E i \in DOMAIN calls[c].warnMessages : calls[c].warnMessages[i] = w

LockedWarning(n, reference) ==
    "cannot override locked step " \o n \o "; using step definition from template "
    \o reference

-----------------------------------------------------------------------------
(* Properties *)

\* C1: for every parent step marked locked, in order mode and in wrap mode,
\* every merged step of that name carries the parent's command, and the
\* 'cannot override locked step' warning is returned exactly when the child
\* also defines that name.
LockedStepImmutable ==
    \A c \in CallIds :
        Composed(c) /\ (OrderMode(c) \/ WrapMode(c)) =>
            \A n \in LockedNames :
                /\ \A i \in DOMAIN MergedSteps(c) :
                      MergedSteps(c)[i].name = n =>
                          MergedSteps(c)[i].command = ParentStep(n, TRUE).command
                /\ Warned(c, LockedWarning(n, ChildConfig(c).template))
                      <=> ChildDefines(c, n)

\* C2: when the child declares order and the parent has a locked step whose
\* name is not in order, the call rejects with an error that names the parent
\* reference and every missing locked step.
OrderMustContainLockedSteps ==
    \A c \in CallIds :
        Done(c) /\ calls[c].settled = "found" /\ OrderMode(c) /\ MissingLocked(c) # {} =>
            /\ calls[c].outcome = "rejected"
            /\ Contains(calls[c].error.message, ChildConfig(c).template)
            /\ \A n \in MissingLocked(c) : Contains(calls[c].error.message, n)

\* C3 as stated: in wrap mode every merged step whose name starts with
\* 'teardown-' comes after every step whose name does not.
TeardownAfterAll ==
    \A c \in CallIds :
        Composed(c) /\ WrapMode(c) =>
            \A i, j \in DOMAIN MergedSteps(c) :
                IsTeardown(MergedSteps(c)[i].name) /\ ~IsTeardown(MergedSteps(c)[j].name)
                    => j < i

\* C3 as amended: in wrap mode every merged 'teardown-' step that the child
\* defines comes after every step whose name does not start with 'teardown-',
\* wherever it stood in the parent's or the child's list.
ChildTeardownAfterAll ==
    \A c \in CallIds :
        Composed(c) /\ WrapMode(c) =>
            \A i, j \in DOMAIN MergedSteps(c) :
                /\ IsTeardown(MergedSteps(c)[i].name)
                /\ ChildDefines(c, MergedSteps(c)[i].name)
                /\ ~IsTeardown(MergedSteps(c)[j].name)
                => j < i

\* a wrap-mode merge in which the parent lists a teardown step before another
\* step and the child defines that teardown step and a step wrapped around it
ChildTeardownMoved ==
    \E c \in CallIds :
        /\ Composed(c) /\ WrapMode(c)
        /\ Len(fresh.config.steps) = 2
        /\ IsTeardown(fresh.config.steps[1].name)
        /\ ~IsTeardown(fresh.config.steps[2].name)
        /\ ChildDefines(c, fresh.config.steps[1].name)
        /\ \E j \in DOMAIN MergedSteps(c) : ~IsTeardown(MergedSteps(c)[j].name)
        /\ IsTeardown(MergedSteps(c)[Len(MergedSteps(c))].name)

\* C4 as stated: a valid child without template, or a call without store,
\* fetches nothing and gets the child's config back unchanged with no warning.
NoTemplateIsNoOp ==
    \A c \in CallIds :
        Done(c) /\ Valid(c) /\ (~Has(ChildConfig(c), "template") \/ ~calls[c].hasFactory) =>
            /\ fetches = <<>>
            /\ calls[c].outcome = "success"
            /\ Template(c).config = ChildConfig(c)
            /\ calls[c].warnMessages = <<>>

\* C4 as amended: such a call fetches nothing and succeeds; its config is the
\* child's unchanged with no warning, except that a non-empty order without
\* template is removed and reported by the one order-without-template warning.
NoTemplateNoFetch ==
    \A c \in CallIds :
        Done(c) /\ Valid(c) /\ (~Has(ChildConfig(c), "template") \/ ~calls[c].hasFactory) =>
            /\ fetches = <<>>
            /\ calls[c].outcome = "success"
            /\ ~calls[c].configIsParent
            /\ IF /\ ~Has(ChildConfig(c), "template")
                  /\ Has(ChildConfig(c), "order")
                  /\ ChildConfig(c).order # <<>>
               THEN /\ Template(c).config = Delete(ChildConfig(c), "order")
                    /\ calls[c].warnMessages =
                          <<"\"order\" in template config cannot be used without \"template\"">>
               ELSE /\ Template(c).config = ChildConfig(c)
                    /\ calls[c].warnMessages = <<>>

\* a call without store, on a child that names a parent and declares order,
\* has resolved
NoStoreResolved ==
    \E c \in CallIds :
        /\ Done(c) /\ Valid(c)
        /\ ~calls[c].hasFactory
        /\ Has(ChildConfig(c), "template")
        /\ Has(ChildConfig(c), "order")
        /\ calls[c].outcome = "success"

\* C5: when getTemplate resolves to null the call rejects with 'Template
\* <reference> does not exist', and nothing was merged.
MissingTemplateRejects ==
    \A c \in CallIds :
        Done(c) /\ calls[c].settled = "null" =>
            /\ calls[c].outcome = "rejected"
            /\ calls[c].error.message = "Template template_namespace/parent@1 does not exist"
            /\ ~calls[c].configIsParent
            /\ calls[c].templateObj.config = ChildConfig(c)
            /\ parent = fresh

\* the store resolved a call's fetch to null
TemplateWasNull ==
    \E c \in CallIds :
        /\ Done(c) /\ calls[c].settled = "null"
        /\ fetches = <<ChildConfig(c).template>>

\* C6: after any composition, successful or failed, the parent document's
\* config and images map are what they were before the call.
ParentNeverChanged ==
    \A c \in CallIds :
        Done(c) =>
            /\ parent.config = fresh.config
            /\ Has(parent, "images") = Has(fresh, "images")
            /\ Has(fresh, "images") => parent.images = fresh.images

\* index.js 59-66, 101-110: the result that holds document doc, the parent
\* document after as the call left it, and the warnings
Flattened(doc, after, warnings) ==
    IF warnings # <<>>
    THEN [errors |-> <<>>,
          template |-> ObjectAssign([doc EXCEPT !.config = after.config],
                                    IF Has(after, "images")
                                    THEN [images |-> after.images] ELSE <<>>),
          warnMessages |-> warnings]
    ELSE [errors |-> <<>>,
          template |-> ObjectAssign([doc EXCEPT !.config = after.config],
                                    IF Has(after, "images")
                                    THEN [images |-> after.images] ELSE <<>>)]

\* the callback's outcome r carried through index.js 58-110
ResumeAlone(doc, r) == Flattened(doc, MergeImages(r.template, doc), r.warnings)

\* what a call on document doc resolves to when it runs alone and the store
\* serves it the document template
ComposeAlone(doc, template) == ResumeAlone(doc, mergeTemplateIntoJob(template, doc.config))

\* C7: when two calls, one after the other or interleaved at their fetches,
\* are served the same parent document object, the result of each equals
\* what that call produces alone against a fresh copy of the parent.
SharedParentIndependent ==
    \A c \in CallIds :
        Composed(c) => Result(c) = ComposeAlone(Child(c), fresh)

\* C8: a document that fails the schema makes the call resolve, not reject,
\* to {errors, template}: errors lists every violation and is not empty,
\* template is the document as loaded, and nothing was fetched or merged.
InvalidResolvesWithErrors ==
    \A c \in CallIds :
        Done(c) /\ calls[c].yaml.wellFormed /\ ~Valid(c) =>
            /\ calls[c].outcome = "invalid"
            /\ DOMAIN Result(c) = {"errors", "template"}
            /\ Len(Result(c).errors) >= 1
            /\ ~Has(Child(c), "description")
                  <=> \E i \in DOMAIN Result(c).errors :
                         Result(c).errors[i].message = "\"description\" is required"
            /\ GetOr(ChildConfig(c), "image", "") \in NumberScalars
                  <=> \E i \in DOMAIN Result(c).errors :
                         Result(c).errors[i].message = "\"config.image\" must be a string"
            /\ Result(c).template = Child(c)
            /\ fetches = <<>>
            /\ parent = fresh

\* a document with two violations, naming a parent and given a store, resolved
TwoViolationsReported ==
    \E c \in CallIds :
        /\ Done(c) /\ calls[c].yaml.wellFormed /\ calls[c].hasFactory
        /\ calls[c].outcome = "invalid"
        /\ Has(ChildConfig(c), "template")
        /\ ~Has(Child(c), "description") /\ ChildConfig(c).image = "1"
        /\ Len(Result(c).errors) = 2

\* C9: a text that cannot be parsed, a parent reference the store cannot
\* resolve, and an order that omits a locked parent step each make the call
\* reject; none yields an {errors, template} or a success result.
FatalErrorsReject ==
    \A c \in CallIds :
        /\ Done(c)
        /\ \/ ~calls[c].yaml.wellFormed
           \/ calls[c].settled = "null"
           \/ calls[c].settled = "found" /\ OrderMode(c) /\ MissingLocked(c) # {}
        => calls[c].outcome = "rejected"

\* C10: whatever error getTemplate rejects with, the call rejects with that
\* same error and never resolves to an {errors, template} result.
StoreErrorPropagated ==
    \A c \in CallIds :
        Done(c) /\ calls[c].settled = "rejected" =>
            /\ calls[c].outcome = "rejected"
            /\ calls[c].error \in StoreErrors

-----------------------------------------------------------------------------
(* Vocabulary of the field properties *)

\* the merged config a composed call returns
Merged(c) == Template(c).config

\* the parent's config as the store first held it
ParentConfig == fresh.config

Range(list) == {list[i] : i \in DOMAIN list}

NoDuplicates(list) == \A i, j \in DOMAIN list : list[i] = list[j] => i = j

\* the position at which list first holds x
First(list, x) == CHOOSE i \in DOMAIN list : list[i] = x /\ \A j \in 1..(i - 1) : list[j] # x

\* a is before b in list, by first occurrence
Before(list, a, b) == First(list, a) < First(list, b)

\* the call has called getTemplate
Fetched(c) == calls[c].pc \in {"fetch", "resume"} \/ calls[c].settled # "none"

-----------------------------------------------------------------------------
(* Properties of the merged fields *)

\* C11 as stated: whenever a valid child declares order but no template, the
\* result's config has no order, the order-without-template warning is
\* returned, nothing is fetched, and the call succeeds with errors = [].
OrderWithoutTemplateStripped ==
    \A c \in CallIds :
        Done(c) /\ Valid(c) /\ Has(ChildConfig(c), "order") /\ ~Has(ChildConfig(c), "template") =>
            /\ calls[c].outcome = "success"
            /\ Result(c).errors = <<>>
            /\ ~Has(Result(c).template.config, "order")
            /\ Has(Result(c), "warnMessages")
            /\ Result(c).warnMessages =
                  <<"\"order\" in template config cannot be used without \"template\"">>
            /\ fetches = <<>>

\* C11 as amended: whenever a valid child declares an order that is not empty
\* but no template, the result's config is the child's without order, the
\* order-without-template warning is returned, nothing is fetched, and the
\* call succeeds with errors = []; an empty order is left in place unwarned.
NonEmptyOrderWithoutTemplateStripped ==
    \A c \in CallIds :
        Done(c) /\ Valid(c) /\ Has(ChildConfig(c), "order") /\ ~Has(ChildConfig(c), "template") =>
            /\ calls[c].outcome = "success"
            /\ Result(c).errors = <<>>
            /\ fetches = <<>>
            /\ IF ChildConfig(c).order # <<>>
               THEN /\ Result(c).template.config = Delete(ChildConfig(c), "order")
                    /\ Has(Result(c), "warnMessages")
                    /\ Result(c).warnMessages =
                          <<"\"order\" in template config cannot be used without \"template\"">>
               ELSE /\ Result(c).template.config = ChildConfig(c)
                    /\ ~Has(Result(c), "warnMessages")

\* a call given a store, on a valid child with order [build] and no template,
\* has resolved
OrderStrippedWithStore ==
    \E c \in CallIds :
        /\ Done(c) /\ Valid(c) /\ calls[c].hasFactory
        /\ ~Has(ChildConfig(c), "template")
        /\ Has(ChildConfig(c), "order") /\ ChildConfig(c).order = <<"build">>
        /\ calls[c].outcome = "success"
        /\ ~Has(Template(c).config, "order")

\* C12: every call issues at most one getTemplate fetch, for the child's own
\* reference, and none when the document fails the schema, names no template
\* or is given no store; while the fetch is pending the call holds no merged
\* field, warning or result and the parent is untouched; the parent's own
\* template reference is never fetched.
FetchAtMostOnce ==
    /\ Len(fetches) = Cardinality({c \in CallIds : Fetched(c)})
    /\ \A i \in DOMAIN fetches :
          \E c \in CallIds : Fetched(c) /\ fetches[i] = ChildConfig(c).template
    /\ (\A c \in CallIds : calls[c].settled # "found") => parent = fresh
    /\ \A c \in CallIds :
          /\ Fetched(c) =>
                Valid(c) /\ Has(ChildConfig(c), "template") /\ calls[c].hasFactory
          /\ calls[c].pc = "fetch" =>
                /\ calls[c].outcome = "pending"
                /\ calls[c].templateObj.config = ChildConfig(c)
                /\ ~calls[c].configIsParent
                /\ calls[c].warnings = <<>>
                /\ calls[c].warnMessages = <<>>

\* a call composed with a parent whose own config names a further parent
ComposedWithGrandparent ==
    \E c \in CallIds :
        /\ Composed(c)
        /\ Has(ParentConfig, "template")
        /\ ParentConfig.template # ChildConfig(c).template
        /\ fetches = <<ChildConfig(c).template>>

\* C13: after composition secrets, and likewise sourcePaths, has no
\* duplicates, holds exactly the parent's and the child's entries, the
\* parent's entries first in the parent's order and then the child's other
\* entries in the child's order.
SecretsAreUnion ==
    \A c \in CallIds : \A k \in {"secrets", "sourcePaths"} :
        Composed(c) =>
            /\ Has(Merged(c), k)
            /\ NoDuplicates(Merged(c)[k])
            /\ Range(Merged(c)[k]) = Range(GetOr(ParentConfig, k, <<>>))
                                       \cup Range(GetOr(ChildConfig(c), k, <<>>))
            /\ \A i, j \in DOMAIN Merged(c)[k] :
                  /\ Merged(c)[k][i] \in Range(GetOr(ParentConfig, k, <<>>))
                  /\ Merged(c)[k][j] \notin Range(GetOr(ParentConfig, k, <<>>))
                  => i < j
            /\ \A i, j \in DOMAIN Merged(c)[k] :
                  i < j =>
                      IF Merged(c)[k][j] \in Range(GetOr(ParentConfig, k, <<>>))
                      THEN Before(ParentConfig[k], Merged(c)[k][i], Merged(c)[k][j])
                      ELSE Merged(c)[k][i] \in Range(GetOr(ParentConfig, k, <<>>))
                           \/ Before(ChildConfig(c)[k], Merged(c)[k][i], Merged(c)[k][j])

\* a composition in which the child lists a secret of its own before one the
\* parent already lists
SecretsOverlapMerged ==
    \E c \in CallIds :
        /\ Composed(c)
        /\ GetOr(ParentConfig, "secrets", <<>>) = <<"NPM_TOKEN">>
        /\ GetOr(ChildConfig(c), "secrets", <<>>) = <<"GIT_KEY", "NPM_TOKEN">>
        /\ Merged(c).secrets = <<"NPM_TOKEN", "GIT_KEY">>

\* the value the parent's identity gives an injected key
Identity(k) ==
    IF k = "SD_TEMPLATE_NAME" THEN fresh.name
    ELSE IF k = "SD_TEMPLATE_VERSION" THEN fresh.version
    ELSE IF k = "SD_TEMPLATE_NAMESPACE"
         THEN (IF Has(fresh, "namespace") THEN fresh.namespace ELSE "")
    ELSE IF ~Has(fresh, "namespace") \/ fresh.namespace \in {"", "default"}
         THEN fresh.name
         ELSE fresh.namespace \o "/" \o fresh.name

\* C14: after a successful composition the merged environment holds the four
\* SD_TEMPLATE_ keys; each is the parent's identity value (full name is
\* namespace/name, or the name alone when the namespace is absent or
\* 'default'; namespace is '' when absent) unless the child's environment
\* defines that key, and then it is the child's value.
IdentityInjected ==
    \A c \in CallIds :
        Composed(c) =>
            /\ Has(Merged(c), "environment")
            /\ \A k \in {"SD_TEMPLATE_FULLNAME", "SD_TEMPLATE_NAME",
                         "SD_TEMPLATE_NAMESPACE", "SD_TEMPLATE_VERSION"} :
                  /\ Has(Merged(c).environment, k)
                  /\ Merged(c).environment[k] =
                        IF Has(GetOr(ChildConfig(c), "environment", <<>>), k)
                        THEN ChildConfig(c).environment[k]
                        ELSE Identity(k)

\* a composition with a parent of the 'default' namespace whose environment
\* already held SD_TEMPLATE_NAME, the child defining the version key only
DefaultNamespaceInjected ==
    \E c \in CallIds :
        /\ Composed(c)
        /\ Has(fresh, "namespace") /\ fresh.namespace = "default"
        /\ GetOr(ParentConfig, "environment", <<>>) = [SD_TEMPLATE_NAME |-> "stale"]
        /\ DOMAIN GetOr(ChildConfig(c), "environment", <<>>) = {"SD_TEMPLATE_VERSION"}
        /\ Merged(c).environment.SD_TEMPLATE_FULLNAME = "parent"
        /\ Merged(c).environment.SD_TEMPLATE_VERSION = "child"

\* C15: after composition the merged config's parameters holds every
\* parameter name the parent or the child defines, with the child's value
\* for a name both define.
ParametersMerged ==
    \A c \in CallIds :
        Composed(c) =>
            \A k \in DOMAIN GetOr(ParentConfig, "parameters", <<>>)
                     \cup DOMAIN GetOr(ChildConfig(c), "parameters", <<>>) :
                /\ Has(Merged(c), "parameters")
                /\ Has(Merged(c).parameters, k)
                /\ Has(GetOr(ChildConfig(c), "parameters", <<>>), k) =>
                      Merged(c).parameters[k] = ChildConfig(c).parameters[k]

\* C16: after composition each of annotations, environment and settings
\* holds every key the parent or the child defines; a key the child defines
\* holds the child's value, and a key only the parent defines holds the
\* parent's (for environment, unless it is one of the four injected keys).
MapsAreUnion ==
    \A c \in CallIds : \A f \in {"annotations", "environment", "settings"} :
        Composed(c) =>
            /\ Has(Merged(c), f)
            /\ \A k \in DOMAIN GetOr(ParentConfig, f, <<>>)
                        \cup DOMAIN GetOr(ChildConfig(c), f, <<>>) :
                  /\ Has(Merged(c)[f], k)
                  /\ Merged(c)[f][k] =
                        IF Has(GetOr(ChildConfig(c), f, <<>>), k)
                        THEN ChildConfig(c)[f][k]
                        ELSE IF f = "environment"
                                /\ k \in {"SD_TEMPLATE_FULLNAME", "SD_TEMPLATE_NAME",
                                          "SD_TEMPLATE_NAMESPACE", "SD_TEMPLATE_VERSION"}
                             THEN Merged(c)[f][k]
                             ELSE ParentConfig[f][k]

\* a composition of settings in which one key is the parent's alone, and one
\* both define
SettingsOverlapMerged ==
    \E c \in CallIds :
        /\ Composed(c)
        /\ DOMAIN GetOr(ParentConfig, "settings", <<>>) = {"K1", "K2"}
        /\ DOMAIN GetOr(ChildConfig(c), "settings", <<>>) = {"K2"}
        /\ Merged(c).settings = [K1 |-> "parent", K2 |-> "child"]

\* C17: after composition each of requires, blockedBy and freezeWindows is
\* the child's list exactly when the child defines the field, and otherwise
\* the parent's list unchanged, or unset when the parent has none.
ListsReplaced ==
    \A c \in CallIds : \A f \in {"requires", "blockedBy", "freezeWindows"} :
        Composed(c) =>
            IF Has(ChildConfig(c), f)
            THEN Has(Merged(c), f) /\ Merged(c)[f] = ChildConfig(c)[f]
            ELSE /\ Has(Merged(c), f) <=> Has(ParentConfig, f)
                 /\ Has(ParentConfig, f) => Merged(c)[f] = ParentConfig[f]

\* a composition in which parent and child define different requires lists
RequiresReplaced ==
    \E c \in CallIds :
        /\ Composed(c)
        /\ Has(ParentConfig, "requires") /\ ParentConfig.requires = <<"~commit">>
        /\ Has(ChildConfig(c), "requires") /\ ChildConfig(c).requires = <<"~pr">>
        /\ Merged(c).requires = <<"~pr">>

\* C18: after composition cache is the child's value whenever the child
\* sets it, false over a parent's true included, and otherwise the parent's
\* (unset when the parent has none).
CacheChildWins ==
    \A c \in CallIds :
        Composed(c) =>
            IF Has(ChildConfig(c), "cache")
            THEN Has(Merged(c), "cache") /\ Merged(c).cache = ChildConfig(c).cache
            ELSE /\ Has(Merged(c), "cache") <=> Has(ParentConfig, "cache")
                 /\ Has(ParentConfig, "cache") => Merged(c).cache = ParentConfig.cache

\* a composition in which the child sets cache to false over the parent's true
CacheFalseOverTrue ==
    \E c \in CallIds :
        /\ Composed(c)
        /\ Has(ParentConfig, "cache") /\ ParentConfig.cache = TRUE
        /\ Has(ChildConfig(c), "cache") /\ ChildConfig(c).cache = FALSE
        /\ Merged(c).cache = FALSE

\* C19: after a successful composition the merged config's templateId is
\* the parent document's id and the merged config has no template field,
\* also when the parent's own config names a further parent.
TemplateIdRecorded ==
    \A c \in CallIds :
        Composed(c) =>
            /\ Has(Merged(c), "templateId")
            /\ Merged(c).templateId = fresh.id
            /\ ~Has(Merged(c), "template")

\* a composition with a parent whose config names a further parent, resolved
\* with the parent's id
GrandparentReferenceRemoved ==
    \E c \in CallIds :
        /\ Composed(c)
        /\ Has(ParentConfig, "template")
        /\ Merged(c).templateId = 7

\* the image merge leaves: the child's if set, else the parent's
MergedImage(c) ==
    IF Has(ChildConfig(c), "image") THEN ChildConfig(c).image ELSE ParentConfig.image

\* C20: after a merge the result's images map holds the parent's labels,
\* with the child's value for a label both define; if that map has a label
\* equal to the merged image (the child's if set, else the parent's) the
\* result's image is that label's value, and otherwise it is the merged
\* image.
ImageAliasSubstituted ==
    \A c \in CallIds :
        Composed(c) =>
            /\ \A l \in DOMAIN GetOr(fresh, "images", <<>>) :
                  /\ Has(Template(c), "images") /\ Has(Template(c).images, l)
                  /\ Template(c).images[l] =
                        IF Has(GetOr(Child(c), "images", <<>>), l)
                        THEN Child(c).images[l] ELSE fresh.images[l]
            /\ Merged(c).image =
                  IF Has(GetOr(Template(c), "images", <<>>), MergedImage(c))
                  THEN Template(c).images[MergedImage(c)]
                  ELSE MergedImage(c)

\* a composition in which the child's image is a label both images maps
\* define: the result's image is the child's value of that label
AliasAndPlainImage ==
    \E c \in CallIds :
        /\ Composed(c)
        /\ Has(ChildConfig(c), "image") /\ ChildConfig(c).image = "base"
        /\ Has(fresh, "images") /\ Has(fresh.images, "base")
        /\ Has(Child(c), "images") /\ Has(Child(c).images, "base")
        /\ Merged(c).image = "child:base"

-----------------------------------------------------------------------------
(* Vocabulary of the step properties *)

ParentSteps == fresh.config.steps

ChildSteps(c) == GetOr(ChildConfig(c), "steps", <<>>)

ParentDefines(n) == n \in Names(ParentSteps)

\* the step of the name in a list (the last, should the list repeat the name)
StepNamed(steps, n) ==
    steps[CHOOSE i \in DOMAIN steps :
             /\ steps[i].name = n
             /\ \A j \in DOMAIN steps : steps[j].name = n => j <= i]

UniqueNames(steps) == \A i, j \in DOMAIN steps : steps[i].name = steps[j].name => i = j

NamesOf(steps) == [i \in DOMAIN steps |-> steps[i].name]

CommandsOf(steps) == [i \in DOMAIN steps |-> steps[i].command]

\* either side defines the name
Resolved(c, n) == ChildDefines(c, n) \/ ParentDefines(n)

NotFoundWarnings(names) ==
    [i \in DOMAIN names |-> names[i] \o " step definition not found; skipping"]

-----------------------------------------------------------------------------
(* Properties of warnings and steps *)

\* C21: a call that meets no fatal error resolves with errors = [] and with
\* warnMessages equal to the warnings generated (the order-without-template
\* warning, then those of the merge) in the order they were generated, and
\* without warnMessages when none was generated; a call for which a warning
\* was generated never rejects on account of it.
WarningsReturned ==
    \A c \in CallIds :
        /\ Done(c) /\ calls[c].outcome = "success" =>
              /\ Result(c).errors = <<>>
              /\ IF StripOrder(Child(c)).warnMessages \o calls[c].warnings = <<>>
                 THEN ~Has(Result(c), "warnMessages")
                 ELSE /\ Has(Result(c), "warnMessages")
                      /\ Result(c).warnMessages =
                            StripOrder(Child(c)).warnMessages \o calls[c].warnings
        /\ Done(c) /\ calls[c].warnings # <<>> => calls[c].outcome = "success"
        /\ Done(c) /\ Valid(c) /\ StripOrder(Child(c)).warnMessages # <<>> =>
              calls[c].outcome = "success"

\* a composition that generated two warnings has resolved with both
TwoWarningsReturned ==
    \E c \in CallIds :
        /\ Composed(c)
        /\ Len(calls[c].warnings) = 2
        /\ Has(Result(c), "warnMessages")
        /\ Len(Result(c).warnMessages) = 2

\* C22: in order mode, for each name in order the child's definition is
\* used when the child defines the name and the parent's step of that name
\* is not locked; otherwise the parent's is used when the parent defines it;
\* no step whose name order does not list appears in the result.
OrderPrecedence ==
    \A c \in CallIds :
        Composed(c) /\ OrderMode(c) =>
            /\ \A i \in DOMAIN MergedSteps(c) :
                  MergedSteps(c)[i].name \in Range(ChildConfig(c).order)
            /\ \A n \in Range(ChildConfig(c).order) :
                  IF ChildDefines(c, n) /\ n \notin LockedNames
                  THEN /\ n \in Names(MergedSteps(c))
                       /\ \A i \in DOMAIN MergedSteps(c) :
                             MergedSteps(c)[i].name = n =>
                                 MergedSteps(c)[i].command = StepNamed(ChildSteps(c), n).command
                  ELSE IF ParentDefines(n)
                  THEN /\ n \in Names(MergedSteps(c))
                       /\ \A i \in DOMAIN MergedSteps(c) :
                             MergedSteps(c)[i].name = n =>
                                 MergedSteps(c)[i].command = StepNamed(ParentSteps, n).command
                  ELSE n \notin Names(MergedSteps(c))

ChildsOwn(c, n) == IF ChildDefines(c, n) THEN <<StepNamed(ChildSteps(c), n)>> ELSE <<>>

RECURSIVE WalkAsStated(_, _)
\* C25's walk from parent step i on: preX, the step for X (the child's when
\* the child defines X and X is not teardown-prefixed, else the parent's),
\* postX
WalkAsStated(c, i) ==
    IF i > Len(ParentSteps) THEN <<>>
    ELSE ChildsOwn(c, "pre" \o ParentSteps[i].name)
         \o (IF ChildDefines(c, ParentSteps[i].name) /\ ~IsTeardown(ParentSteps[i].name)
             THEN <<StepNamed(ChildSteps(c), ParentSteps[i].name)>>
             ELSE <<ParentSteps[i]>>)
         \o ChildsOwn(c, "post" \o ParentSteps[i].name)
         \o WalkAsStated(c, i + 1)

RECURSIVE WalkSkipping(_, _)
\* the walk in which a teardown-prefixed X that the child defines yields no
\* step for X
WalkSkipping(c, i) ==
    IF i > Len(ParentSteps) THEN <<>>
    ELSE ChildsOwn(c, "pre" \o ParentSteps[i].name)
         \o (IF ~ChildDefines(c, ParentSteps[i].name) THEN <<ParentSteps[i]>>
             ELSE IF ~IsTeardown(ParentSteps[i].name)
             THEN <<StepNamed(ChildSteps(c), ParentSteps[i].name)>>
             ELSE <<>>)
         \o ChildsOwn(c, "post" \o ParentSteps[i].name)
         \o WalkSkipping(c, i + 1)

ChildTeardownAppended ==
    \A c \in CallIds :
        Composed(c) /\ WrapMode(c) /\ UniqueNames(ChildSteps(c)) =>
            /\ Len(MergedSteps(c)) >=
                  Len(SelectSeq(ChildSteps(c), LAMBDA st : IsTeardown(st.name)))
            /\ SubSeq(MergedSteps(c),
                      Len(MergedSteps(c))
                        - Len(SelectSeq(ChildSteps(c), LAMBDA st : IsTeardown(st.name))) + 1,
                      Len(MergedSteps(c)))
                  = SelectSeq(ChildSteps(c), LAMBDA st : IsTeardown(st.name))
            /\ \A i \in DOMAIN MergedSteps(c) :
                  /\ IsTeardown(MergedSteps(c)[i].name)
                  /\ ChildDefines(c, MergedSteps(c)[i].name)
                  => i > Len(MergedSteps(c))
                           - Len(SelectSeq(ChildSteps(c), LAMBDA st : IsTeardown(st.name)))
            /\ UniqueNames(ParentSteps) =>
                  \A p \in DOMAIN ParentSteps :
                      IsTeardown(ParentSteps[p].name) /\ ~ChildDefines(c, ParentSteps[p].name) =>
                          \E i \in DOMAIN MergedSteps(c) :
                              /\ MergedSteps(c)[i] = ParentSteps[p]
                              /\ i <= Len(MergedSteps(c))
                                        - Len(SelectSeq(ChildSteps(c),
                                                        LAMBDA st : IsTeardown(st.name)))
                              /\ \A j \in DOMAIN MergedSteps(c), q \in DOMAIN ParentSteps :
                                    MergedSteps(c)[j].name = ParentSteps[q].name
                                    /\ ~IsTeardown(ParentSteps[q].name) =>
                                        (q < p => j < i) /\ (q > p => j > i)

\* a wrap-mode composition in which the parent lists a teardown step first and
\* the child redefines it: it is gone from its place and stands last, as the
\* child's
ParentTeardownSuperseded ==
    \E c \in CallIds :
        /\ Composed(c) /\ WrapMode(c)
        /\ NamesOf(ParentSteps) = <<"teardown-clean", "build">>
        /\ NamesOf(ChildSteps(c)) = <<"teardown-clean">>
        /\ CommandsOf(MergedSteps(c)) = <<"parent build", "child teardown-clean">>

\* C27: when the child declares a template and an order but no steps list,
\* composition succeeds and the merged steps are the names of order that the
\* parent defines, the others skipped with a warning each.
OrderWithoutStepsSucceeds ==
    \A c \in CallIds :
        Done(c) /\ calls[c].settled = "found" /\ OrderMode(c) /\ ~Has(ChildConfig(c), "steps") =>
            /\ calls[c].outcome = "success"
            /\ \A i \in DOMAIN MergedSteps(c) :
                  /\ MergedSteps(c)[i].name \in Range(ChildConfig(c).order)
                  /\ MergedSteps(c)[i] = StepNamed(ParentSteps, MergedSteps(c)[i].name)
            /\ \A n \in Range(ChildConfig(c).order) :
                  IF ParentDefines(n)
                  THEN n \in Names(MergedSteps(c))
                  ELSE Warned(c, n \o " step definition not found; skipping")

\* C28: if the parent's steps, the child's steps and the child's order each
\* repeat no name, the merged steps repeat no name, in order mode and in
\* wrap mode.
MergedNamesUnique ==
    \A c \in CallIds :
        /\ Composed(c) /\ (OrderMode(c) \/ WrapMode(c))
        /\ UniqueNames(ParentSteps)
        /\ UniqueNames(ChildSteps(c))
        /\ NoDuplicates(GetOr(ChildConfig(c), "order", <<>>))
        => UniqueNames(MergedSteps(c))

\* C29: in wrap mode a child step whose name is not teardown-prefixed and is
\* neither a parent step name X nor preX nor postX for a parent step X is not
\* among the merged steps, and no warning is returned.
UnrelatedChildStepDropped ==
    \A c \in CallIds :
        Composed(c) /\ WrapMode(c) =>
            \A i \in DOMAIN ChildSteps(c) :
                /\ ~IsTeardown(ChildSteps(c)[i].name)
                /\ \A p \in DOMAIN ParentSteps :
                      /\ ChildSteps(c)[i].name # ParentSteps[p].name
                      /\ ChildSteps(c)[i].name # "pre" \o ParentSteps[p].name
                      /\ ChildSteps(c)[i].name # "post" \o ParentSteps[p].name
                => /\ ChildSteps(c)[i].name \notin Names(MergedSteps(c))
                   /\ calls[c].warnMessages = <<>>
                   /\ ~Has(Result(c), "warnMessages")

\* a wrap-mode composition in which the child defines prebuild and a
\* teardown step, and the parent has a teardown step but no build
PrebuildWithoutBuild ==
    \E c \in CallIds :
        /\ Composed(c) /\ WrapMode(c)
        /\ NamesOf(ParentSteps) = <<"teardown-clean">>
        /\ NamesOf(ChildSteps(c)) = <<"prebuild", "teardown-clean">>
        /\ NamesOf(MergedSteps(c)) = <<"teardown-clean">>

\* C30: the name, namespace, version, description and maintainer of the
\* returned template are those of the validated child document, present
\* exactly when the child has them, whatever the parent's are.
IdentityIsChilds ==
    \A c \in CallIds :
        Done(c) /\ calls[c].outcome = "success" =>
            \A f \in {"name", "namespace", "version", "description", "maintainer"} :
                /\ Has(Result(c).template, f) <=> Has(Child(c), f)
                /\ Has(Child(c), f) => Result(c).template[f] = Child(c)[f]

\* a composition with a parent that has a namespace, the child having none
ComposedAcrossNamespace ==
    \E c \in CallIds :
        /\ Composed(c)
        /\ Has(fresh, "namespace") /\ ~Has(Child(c), "namespace")
        /\ fresh.name # Child(c).name /\ fresh.version # Child(c).version
        /\ Result(c).template.name = "child"
        /\ Has(Result(c).template.config, "templateId")

====
